---- MODULE Spec2Model ----
(***************************************************************************)
(* The playback scheduling engine of daemon/server.py: the AudioQueue, its *)
(* control methods and its single worker task, under asyncio's cooperative *)
(* scheduling.  A worker action runs from one suspension point of _worker  *)
(* (an await that really yields) to the next; a control method runs whole. *)
(*                                                                         *)
(* asyncio.Event.wait() returns at once when the event is set; otherwise   *)
(* the task sleeps until set() resolves its waiter, and it then runs in a  *)
(* later turn of the loop, whatever the event's value is by then.  The     *)
(* awaits on the broadcaster never yield.  The player process is running   *)
(* from inside create_subprocess_exec, before _process is assigned.        *)
(* The SSE broadcaster and its subscribers are specified on their own      *)
(* (BroadcastSpec): the worker never waits on them.  The request handlers  *)
(* with their synthesis step, the replay cache and its sweep are specified *)
(* with the worker's plain play-through (RequestSpec), the pages of the     *)
(* history (PageSpec) and the choice of the Linux player (BackendSpec) on  *)
(* their own.  What the worker does that is seen from outside, the files   *)
(* it unlinks and the events it publishes, is recorded in order in         *)
(* TraceSpec; the dialogue timings are computed in TimingSpec.             *)
(***************************************************************************)
EXTENDS Integers, Sequences, FiniteSets, TLC

\* ---------------------------------------------------------------- bounds
MaxEntries == 2          \* entries ever enqueued in one behaviour
MaxOffset  == 2          \* play offset + elapsed time never passes this
MaxPlayed  == 1002       \* entries finalized in a behaviour of HistorySpec
MaxSent    == 258        \* events published in a behaviour of BroadcastSpec
MaxLate    == 1          \* events published before the last subscriber joins
MaxStale   == 1          \* events published while a stream has not started
MaxGets    == 2          \* messages the streams take from their buffers
MaxRecords == 4          \* records in the history in a behaviour of PageSpec
MaxRequests == 3         \* entries built in a behaviour of RequestSpec
MaxInflight == 1         \* synthesis calls in flight per handler
MaxSegments == 3         \* segments of a dialogue in TimingSpec
MaxChars   == 3          \* characters of a segment's text
MaxDuration == 9         \* probed duration, in parts of the rounding unit
Finer      == 2          \* parts of the rounding unit (0.001 s) durations have
MaxEvents  == 7          \* length of the trace up to which players are started

\* ------------------------------------------------------------- constants
MAX_HISTORY == 1000
MAX_SSE_QUEUE == 256

Channels  == {"x"}
NoChannel == "none"      \* channel=None, the default lane
NoSeek    == -1          \* _seek_offset is None
NoPath    == -1          \* trimmed_path is None
NoDuration == -1         \* duration is None
NoTime    == -1          \* a segment has no "start" / "end" key
Killed    == 1           \* a killed player exits with a non-zero status

ChannelArgs == Channels \cup {NoChannel}
CacheWrites == {TRUE}      \* outcomes of the copy into the cache directory
SeekArgs    == {0, 1}      \* offsets passed to seek()
LimitArgs   == {1, 2}      \* limits passed to get_history()
OffsetArgs  == {0, 1}      \* offsets passed to get_history()
Subscribers == {1, 2}      \* connections to /events, in order of arrival
Kinds       == {"speak", "dialogue"}   \* the two synthesizing handlers
Players     == {"paplay", "mpv", "aplay"}
NoReply     == [op |-> "none", code |-> 0, id |-> 0, arg |-> 0, seq |-> 0]

\* QueueEntry: the fields the scheduler reads.  audio_path and history_id are
\* identified with id.
QueueEntry(i, c, p, r) == [id |-> i, channel |-> c, priority |-> p, is_replay |-> r]
None == QueueEntry(0, NoChannel, FALSE, FALSE)

VARIABLES
    deque,            \* _deque: the pending sequence, head first
    has_items,        \* _has_items (asyncio.Event) is set
    paused_global,    \* _paused_global
    resume_event,     \* _resume_event (asyncio.Event) is set
    paused_channels,  \* _paused_channels
    current,          \* _current (None when absent)
    process,          \* _process is not None
    proc,             \* the player process: "none", "running", "exited"
                      \* (dead, returncode still None), "reaped" (returncode set)
    ret_code,         \* exit status of the player process
    pause_requested,  \* _pause_requested
    elapsed,          \* time.monotonic() - _play_start: seconds since the
                      \* player was started
    seek_offset,      \* _seek_offset
    history,          \* _history
    files,            \* ids of the entries whose audio_path exists on disk
    cache,            \* history ids with a file in the cache directory
    trim_live,        \* number of trimmed temp files on disk
    pc,               \* the worker's suspension point
    play_offset,      \* local play_offset of _worker
    play_failed,      \* local play_failed of _worker
    trimmed_path,     \* local trimmed_path of _worker: NoPath, or the offset
                      \* the trimmed file starts at
    play_file,        \* offset at which the file handed to the player starts
    next_id,          \* id of the next entry a producer builds
    cycle,            \* how the worker handled the last process exit, kept
                      \* until the next player process is assigned
    broadcaster,      \* the SSE broadcaster and the connections to /events
    requests,         \* the speak, dialogue and replay requests
    backend           \* the Linux audio backend and the players installed
                      \* each one a record of the fields below in the
                      \* specification of that part, and Off in the others

qvars == <<deque, has_items, paused_global, resume_event, paused_channels, current,
           process, proc, ret_code, pause_requested, elapsed, seek_offset,
           history, files, cache, trim_live, pc, play_offset, play_failed,
           trimmed_path, play_file, next_id, cycle>>

Off == "off"

\* The worker's trace: what it does that is seen from outside the task, in
\* order -- the audio files it unlinks and the events it publishes -- from
\* the creation of the task on.  Kept in TraceSpec; NoTrace where nobody
\* looks.
NoTrace == <<>>
trace == broadcaster

\* SSEBroadcaster._clients: the subscribed queues
clients == broadcaster.clients
\* number of events published so far; event k is the k-th published
sent == broadcaster.sent
\* the connections to /events in order of arrival, each with its state, buf,
\* base, snap and taken (below)
streams == broadcaster.streams
Broadcaster(cl, n, str) == [clients |-> cl, sent |-> n, streams |-> str]

\* the audio written in the temp file of each entry, in id order; a
\* synthesized audio is named by the id of the entry it was made for
audio == requests.audio
\* number of _fetch_tts / _fetch_dialogue calls in flight, per handler
synth == requests.synth
\* the last reply of a speak, dialogue or replay handler; seq alternates
\* with every reply
reply == requests.reply
Requests(au, sy, re) == [audio |-> au, synth |-> sy, reply |-> re]

\* the players shutil.which finds
installed == backend.installed
\* LinuxBackend._player ("unset" before construction)
player == backend.player
\* the last command LinuxBackend.play started
spawned == backend.spawned
Backend(ins, pl, sp) == [installed |-> ins, player |-> pl, spawned |-> sp]

\* The fields of the connections, for every possible connection:
\* stream: "none", "open" (handle_events has returned, the generator has not
\*         started), "live" (the snapshot is yielded), "closed"
\* buf:    its asyncio.Queue: the messages put and not yet taken
\* base:   the value of sent when it subscribed
\* snap:   the value of sent when its snapshot was taken
\* taken:  the number of messages its stream has yielded
Connected(q) == q \in 1..Len(streams)
stream == [q \in Subscribers |-> IF Connected(q) THEN streams[q].state ELSE "none"]
buf    == [q \in Subscribers |-> IF Connected(q) THEN streams[q].buf ELSE <<>>]
base   == [q \in Subscribers |-> IF Connected(q) THEN streams[q].base ELSE 0]
snap   == [q \in Subscribers |-> IF Connected(q) THEN streams[q].snap ELSE 0]
taken  == [q \in Subscribers |-> IF Connected(q) THEN streams[q].taken ELSE 0]

\* the first n connections with these fields
Streams(n, st, bf, ba, sn, tk) ==
    [q \in 1..n |-> [state |-> st[q], buf |-> bf[q], base |-> ba[q],
                     snap |-> sn[q], taken |-> tk[q]]]

vars == <<qvars, broadcaster, requests, backend>>

\* The whole state as one record, so that a worker step made of several
\* pieces of code is a composition of functions on it.
St == [deque |-> deque, has_items |-> has_items, paused_global |-> paused_global,
       resume_event |-> resume_event, paused_channels |-> paused_channels,
       current |-> current, process |-> process, proc |-> proc,
       ret_code |-> ret_code, pause_requested |-> pause_requested,
       elapsed |-> elapsed, seek_offset |-> seek_offset,
       history |-> history, files |-> files, cache |-> cache,
       trim_live |-> trim_live, pc |-> pc, play_offset |-> play_offset,
       play_failed |-> play_failed,
       trimmed_path |-> trimmed_path, play_file |-> play_file,
       next_id |-> next_id, cycle |-> cycle, ret |-> 0,
       trace |-> broadcaster]

\* cycle: kind of the exit ("pause", "seek"), `from` the offset at which the
\* ended player's file started, p the play offset and e the elapsed time the
\* worker read when it handled the exit
NoCycle == [kind |-> "none", from |-> 0, p |-> 0, e |-> 0]

ApplyQ(s) ==
    /\ deque' = s.deque
    /\ has_items' = s.has_items
    /\ paused_global' = s.paused_global
    /\ resume_event' = s.resume_event
    /\ paused_channels' = s.paused_channels
    /\ current' = s.current
    /\ process' = s.process
    /\ proc' = s.proc
    /\ ret_code' = s.ret_code
    /\ pause_requested' = s.pause_requested
    /\ elapsed' = s.elapsed
    /\ seek_offset' = s.seek_offset
    /\ history' = s.history
    /\ files' = s.files
    /\ cache' = s.cache
    /\ trim_live' = s.trim_live
    /\ pc' = s.pc
    /\ play_offset' = s.play_offset
    /\ play_failed' = s.play_failed
    /\ trimmed_path' = s.trimmed_path
    /\ play_file' = s.play_file
    /\ next_id' = s.next_id
    /\ cycle' = s.cycle

Apply(s) ==
    /\ ApplyQ(s)
    /\ broadcaster' = s.trace
    /\ UNCHANGED <<requests, backend>>

QueueInit ==
    /\ deque = <<>>
    /\ has_items = FALSE
    /\ paused_global = FALSE
    /\ resume_event = TRUE
    /\ paused_channels = {}
    /\ current = None
    /\ process = FALSE
    /\ proc = "none"
    /\ ret_code = 0
    /\ pause_requested = FALSE
    /\ elapsed = 0
    /\ seek_offset = NoSeek
    /\ history = <<>>
    /\ files = {}
    /\ cache = {}
    /\ trim_live = 0
    /\ pc = "wait_items"
    /\ play_offset = 0
    /\ play_failed = FALSE
    /\ trimmed_path = NoPath
    /\ play_file = 0
    /\ next_id = 1
    /\ cycle = NoCycle

Init ==
    /\ QueueInit
    /\ broadcaster = NoTrace
    /\ requests = Off
    /\ backend = Off

\* ------------------------------------------------------- sequence helpers
\* (mutant) nothing is deleted
RemoveAtNothing(seq, i) == seq

\* del self._deque[i]
RemoveAt(seq, i) == SubSeq(seq, 1, i - 1) \o SubSeq(seq, i + 1, Len(seq))

\* (mutant) every entry is dropped, whatever its channel
FilterAll(seq, c) == <<>>

RECURSIVE Filter(_, _)
\* the entries of seq whose channel is not c, in order
Filter(seq, c) ==
    IF seq = <<>> THEN <<>>
    ELSE IF Head(seq).channel = c THEN Filter(Tail(seq), c)
         ELSE <<Head(seq)>> \o Filter(Tail(seq), c)

\* (mutant) no file is removed
UnlinkNothing(fs, ids) == fs

\* os.unlink of the audio files of the entries ids, OSError swallowed: the
\* files that exist are removed.
Unlink(fs, ids) == fs \ ids

\* asyncio.Event.set(): a waiter's future is resolved and the worker is
\* scheduled; it runs later, without testing the event again.
SetHasItems(s) ==
    [s EXCEPT !.has_items = TRUE,
              !.pc = IF s.pc = "wait_items" THEN "woke_items" ELSE s.pc]

SetResumeEvent(s) ==
    [s EXCEPT !.resume_event = TRUE,
              !.pc = IF s.pc = "wait_resume" THEN "woke_resume"
                     ELSE IF s.pc = "paused_wait" THEN "paused_woke" ELSE s.pc]

\* self._process and self._process.returncode is None
ProcessLive(s) == s.process /\ s.proc \in {"running", "exited"}

\* Process.kill(): SIGKILL to a running player; nothing to one already dead.
\* While returncode is None the call does not raise (the transport is open,
\* and Popen.send_signal polls first and swallows ProcessLookupError), so
\* the `except ProcessLookupError` branches of the callers are not taken.
Kill(s) ==
    IF s.proc = "running" THEN [s EXCEPT !.proc = "exited", !.ret_code = Killed]
    ELSE s


\* --------------------------------------------------------- control methods
\* (mutant) every entry is put at the head
EnqueueSeqHead(dq, e) == <<e>> \o dq

\* (mutant) priority ignored: every entry is appended
EnqueueSeqTail(dq, e) == Append(dq, e)

\* AudioQueue.enqueue: appendleft for a priority entry, append otherwise.
EnqueueSeq(dq, e) == IF e.priority THEN <<e>> \o dq ELSE Append(dq, e)

\* the value enqueue returns, given the pending sequence after insertion
EnqueueRet(dq) == Len(dq)

\* (mutant) a priority entry pre-empts: the player of the current entry is
\* killed to make room for it
EnqueuePreempts(s, e) ==
    LET dq == EnqueueSeq(s.deque, e)
        s1 == IF e.priority /\ ProcessLive(s) THEN Kill(s) ELSE s
    IN  SetHasItems([s1 EXCEPT !.deque = dq,
                               !.ret = EnqueueRet(dq)])

enqueue(s, e) ==
    LET dq == EnqueueSeq(s.deque, e)
    IN  SetHasItems([s EXCEPT !.deque = dq,
                              !.ret = EnqueueRet(dq)])

\* AudioQueue._pick_next as an index into the pending sequence: the first
\* entry whose channel is unset or not paused; 0 when there is none.
Skipped(e, paused) == e.channel # NoChannel /\ e.channel \in paused

\* (mutant) the newest eligible entry is picked
PickNewest(dq, paused) ==
    LET ok == {i \in 1..Len(dq) : ~Skipped(dq[i], paused)}
    IN  IF ok = {} THEN 0 ELSE CHOOSE i \in ok : \A j \in ok : i >= j

\* (mutant) the head is picked whatever its channel
PickHead(dq, paused) == IF dq = <<>> THEN 0 ELSE 1

\* (mutant) the scan stops at the first entry of a paused channel
PickStopsAtPaused(dq, paused) ==
    IF dq = <<>> \/ Skipped(dq[1], paused) THEN 0 ELSE 1

PickNext(dq, paused) ==
    LET ok == {i \in 1..Len(dq) : ~Skipped(dq[i], paused)}
    IN  IF ok = {} THEN 0 ELSE CHOOSE i \in ok : \A j \in ok : i <= j

\* (mutant) clear() with no channel takes the current entry with it whenever
\* there is one: its file is deleted and it is counted
ClearTakesCurrent(s, channel) ==
    LET n    == Len(s.deque)
        gone == {i \in 1..n : channel = NoChannel \/ s.deque[i].channel = channel}
        cur  == channel = NoChannel /\ s.current # None
        s1   == IF cur THEN Kill(s) ELSE s
    IN  [s1 EXCEPT !.deque = IF channel = NoChannel THEN <<>>
                             ELSE Filter(s.deque, channel),
                   !.files = Unlink(s.files,
                                    {s.deque[i].id : i \in gone}
                                    \cup (IF cur THEN {s.current.id} ELSE {})),
                   !.has_items = IF channel = NoChannel
                                    \/ Filter(s.deque, channel) = <<>>
                                 THEN FALSE ELSE s.has_items,
                   !.ret = Cardinality(gone) + (IF cur THEN 1 ELSE 0)]

\* AudioQueue.clear
clear(s, channel) ==
    IF channel = NoChannel
    THEN LET n  == Len(s.deque)
             k  == IF ProcessLive(s) THEN 1 ELSE 0
             s1 == [s EXCEPT !.deque = <<>>,
                             !.files = Unlink(s.files,
                                              {s.deque[i].id : i \in 1..n})]
             s2 == IF ProcessLive(s1) THEN Kill(s1) ELSE s1
         IN  [s2 EXCEPT !.has_items = FALSE,
                        !.ret = n + k]
    ELSE LET gone == {i \in 1..Len(s.deque) : s.deque[i].channel = channel}
             dq   == Filter(s.deque, channel)
         IN  [s EXCEPT !.deque = dq,
                       !.files = Unlink(s.files, {s.deque[i].id : i \in gone}),
                       !.has_items = IF dq = <<>> THEN FALSE ELSE s.has_items,
                       !.ret = Cardinality(gone)]

\* (mutant) skip marks the kill as intentional, as pause and seek do
SkipMarked(s) ==
    IF ProcessLive(s)
    THEN [Kill(s) EXCEPT !.pause_requested = TRUE, !.ret = 1]
    ELSE [s EXCEPT !.ret = 0]

\* AudioQueue.skip
skip(s) ==
    IF ProcessLive(s)
    THEN [Kill(s) EXCEPT !.ret = 1]
    ELSE [s EXCEPT !.ret = 0]

\* (mutant) the test on the player process is left out
SeekAnyCurrent(s, offset) ==
    IF s.current = None
    THEN [s EXCEPT !.ret = 0]
    ELSE [Kill(s) EXCEPT !.seek_offset = offset,
                         !.pause_requested = TRUE,
                         !.ret = 1]

\* AudioQueue.seek
seek(s, offset) ==
    IF s.current = None \/ ~s.process \/ s.proc = "reaped"
    THEN [s EXCEPT !.ret = 0]
    ELSE [Kill(s) EXCEPT !.seek_offset = offset,
                         !.pause_requested = TRUE,
                         !.ret = 1]

\* (mutant) a channel pause also closes the global gate and kills the player
PauseAlwaysGlobal(s, channel) ==
    LET s1 == [s EXCEPT !.paused_global = TRUE, !.resume_event = FALSE,
                        !.paused_channels =
                            IF channel = NoChannel THEN @ ELSE @ \cup {channel},
                        !.ret = 0]
    IN  IF ProcessLive(s1)
        THEN Kill([s1 EXCEPT !.pause_requested = TRUE])
        ELSE s1

\* (mutant) a global pause sets the pause-requested flag whether or not a
\* player process is there to kill
PauseMarksAlways(s, channel) ==
    IF channel = NoChannel
    THEN Kill([s EXCEPT !.paused_global = TRUE, !.resume_event = FALSE,
                        !.pause_requested = TRUE, !.ret = 0])
    ELSE [s EXCEPT !.paused_channels = s.paused_channels \cup {channel},
                   !.ret = 0]

\* AudioQueue.pause
pause(s, channel) ==
    IF channel = NoChannel
    THEN LET s1 == [s EXCEPT !.paused_global = TRUE, !.resume_event = FALSE,
                             !.ret = 0]
         IN  IF ProcessLive(s1)
             THEN Kill([s1 EXCEPT !.pause_requested = TRUE])
             ELSE s1
    ELSE [s EXCEPT !.paused_channels = s.paused_channels \cup {channel},
                   !.ret = 0]

\* (mutant) resume() with no channel restarts the player of a paused entry
\* itself instead of waking the worker
ResumeRestarts(s, channel) ==
    IF channel = NoChannel
    THEN LET s1 == SetResumeEvent([s EXCEPT !.paused_global = FALSE, !.ret = 0])
         IN  IF s.pc = "paused_wait" THEN [s1 EXCEPT !.proc = "running"] ELSE s1
    ELSE [s EXCEPT !.paused_channels = s.paused_channels \ {channel},
                   !.ret = 0]

\* AudioQueue.resume
resume(s, channel) ==
    IF channel = NoChannel
    THEN SetResumeEvent([s EXCEPT !.paused_global = FALSE,
                                  !.ret = 0])
    ELSE [s EXCEPT !.paused_channels = s.paused_channels \ {channel},
                   !.ret = 0]

\* (mutant) the records are left oldest first
ReverseNot(seq) == seq

\* list(reversed(seq))
Reverse(seq) == [i \in 1..Len(seq) |-> seq[Len(seq) + 1 - i]]

\* seq[a:b] for 0 <= a <= b
Slice(seq, a, b) == SubSeq(seq, a + 1, IF b < Len(seq) THEN b ELSE Len(seq))

\* AudioQueue.get_history
get_history(s, limit, offset, channel) ==
    LET entries == IF channel # NoChannel
                   THEN SelectSeq(s.history, LAMBDA e : e.channel = channel)
                   ELSE s.history
    IN  [s EXCEPT !.ret = Slice(Reverse(entries), offset, offset + limit)]

\* one element of status()["items"]
StatusItem(e, pos, st) ==
    [position |-> pos, status |-> st, id |-> e.id,
     channel |-> e.channel, priority |-> e.priority]

\* (mutant) the pending entries are listed whatever their channel
QueuedItemsAll(dq, i, channel) ==
    [j \in 1..(Len(dq) + 1 - i) |-> StatusItem(dq[j + i - 1], j + i - 1, "queued")]

RECURSIVE QueuedItems(_, _, _)
\* for i, entry in enumerate(self._deque): the items of the entries from the
\* i-th on
QueuedItems(dq, i, channel) ==
    IF i > Len(dq) THEN <<>>
    ELSE (IF channel # NoChannel /\ dq[i].channel # channel
          THEN <<>>
          ELSE <<StatusItem(dq[i], i, "queued")>>)
         \o QueuedItems(dq, i + 1, channel)

\* AudioQueue.status; channel_paused is the sorted list of the set
status(s, channel) ==
    LET cur   == IF s.current # None
                    /\ (channel = NoChannel \/ s.current.channel = channel)
                 THEN <<StatusItem(s.current, 0, "playing")>>
                 ELSE <<>>
        items == cur \o QueuedItems(s.deque, 1, channel)
    IN  [s EXCEPT !.ret = [playing |-> s.current # None,
                           queued |-> Len(s.deque),
                           total |-> Len(items),
                           items |-> items,
                           paused |-> s.paused_global,
                           channel_paused |-> s.paused_channels]]

\* ------------------------------------------------------------- the worker
\* (mutant) the record is appended twice
HistoryAppendTwice(h, rec) == Append(Append(h, rec), rec)

\* (mutant) the cut keeps the oldest MAX_HISTORY records
HistoryAppendKeepOldest(h, rec) ==
    LET h1 == Append(h, rec)
    IN  IF Len(h1) > MAX_HISTORY THEN SubSeq(h1, 1, MAX_HISTORY) ELSE h1

\* Appending to _history, cut to the last MAX_HISTORY records.
HistoryAppend(h, rec) ==
    LET h1 == Append(h, rec)
    IN  IF Len(h1) > MAX_HISTORY
        THEN SubSeq(h1, Len(h1) - MAX_HISTORY + 1, Len(h1)) ELSE h1

\* entry = self._pick_next() and what follows it up to the first await that
\* yields: either back to the wait for has_items, or the entry is current
\* and being probed.
PickAndStart(s) ==
    LET i == PickNext(s.deque, s.paused_channels)
    IN  IF i = 0
        THEN [s EXCEPT !.has_items = FALSE, !.pc = "wait_items"]
        ELSE [s EXCEPT !.deque = RemoveAt(s.deque, i),
                       !.current = s.deque[i],
                       !.seek_offset = NoSeek,
                       !.play_offset = 0,
                       !.trimmed_path = NoPath,
                       !.play_failed = FALSE,
                       !.pc = "probe",
                       !.cycle = NoCycle]

\* if self._paused_global: await self._resume_event.wait()
AfterHasItems(s) ==
    IF s.paused_global /\ ~s.resume_event
    THEN [s EXCEPT !.pc = "wait_resume"]
    ELSE PickAndStart(s)

\* (mutant) the worker blocks at the top of the loop whatever the event
LoopTopBlocks(s) == [s EXCEPT !.pc = "wait_items"]

\* Top of `while True`: await self._has_items.wait()
LoopTop(s) ==
    IF s.has_items THEN AfterHasItems(s) ELSE [s EXCEPT !.pc = "wait_items"]

\* One element of the trace, made when the worker unlinks the audio file of
\* e or publishes an event about e (None for the idle event).  id and queued
\* are in the event's data; replay is e's is_replay; cur, file and rec are
\* what the queue holds at that moment: the id of the current entry, whether
\* e's audio file exists and whether the history has e's record.
Event(type, e, dq, cur, fs, h) ==
    [type |-> type, id |-> e.id, queued |-> Len(dq), replay |-> e.is_replay,
     cur |-> cur.id, file |-> e.id \in fs,
     rec |-> \E i \in 1..Len(h) : h[i].id = e.id]

\* s with the trace, when one is kept, longer by the elements evs
Emit(s, evs) ==
    IF s.trace = NoTrace THEN s ELSE [s EXCEPT !.trace = s.trace \o evs]

\* (mutant) the current-entry pointer is cleared and the idle event published
\* before the history record is appended and published
FinalizeIdleFirst(s, failed) ==
    LET e   == s.current
        fs  == Unlink(s.files, {e.id})
        h   == IF e.is_replay THEN s.history
               ELSE HistoryAppend(s.history,
                                  [id |-> e.id, channel |-> e.channel,
                                   failed |-> failed])
        evs == <<Event("unlink", e, s.deque, e, fs, s.history),
                 Event("voice_active", None, s.deque, None, fs, s.history)>>
               \o (IF e.is_replay THEN <<>>
                   ELSE <<Event("history_update", e, s.deque, None, fs, h)>>)
    IN  LoopTop(Emit(
          [s EXCEPT
             !.trim_live = IF s.trimmed_path # NoPath THEN s.trim_live - 1
                           ELSE s.trim_live,
             !.files = fs,
             !.history = h,
             !.current = None,
             !.trimmed_path = NoPath, !.play_offset = 0,
             !.play_failed = FALSE,
             !.cycle = NoCycle,
             !.process = FALSE,
             !.proc = "none",
             !.has_items = IF s.deque = <<>> THEN FALSE ELSE s.has_items],
          evs))

\* The finally block of _worker, then the top of the loop again.  In its
\* order: the trimmed file left, if any, is unlinked; the audio file is
\* unlinked (fs: the files after that); the record of an entry that is not a
\* replay is appended (h: the history after that) and history_update is
\* published; _current and _process are cleared, _has_items too when nothing
\* is pending; the idle voice_active is published.
Finalize(s, failed) ==
    LET e   == s.current
        fs  == Unlink(s.files, {e.id})
        h   == IF e.is_replay THEN s.history
               ELSE HistoryAppend(s.history,
                                  [id |-> e.id, channel |-> e.channel,
                                   failed |-> failed])
        evs == <<Event("unlink", e, s.deque, e, fs, s.history)>>
               \o (IF e.is_replay THEN <<>>
                   ELSE <<Event("history_update", e, s.deque, e, fs, h)>>)
               \o <<Event("voice_active", None, s.deque, None, fs, h)>>
    IN  LoopTop(Emit(
          [s EXCEPT
             !.trim_live = IF s.trimmed_path # NoPath THEN s.trim_live - 1
                           ELSE s.trim_live,
             !.files = fs,
             !.history = h,
             !.current = None,
             !.trimmed_path = NoPath, !.play_offset = 0,  \* dead locals
             !.play_failed = FALSE,
             !.cycle = NoCycle,
             !.process = FALSE,
             !.proc = "none",
             !.has_items = IF s.deque = <<>> THEN FALSE ELSE s.has_items],
          evs))

\* asyncio.create_subprocess_exec("afplay", play_file): the player runs from
\* here on, _process is assigned when the await returns; or the call raises.
StartProcess(s, file, ok) ==
    IF ok
    THEN [s EXCEPT !.proc = "running", !.ret_code = 0, !.play_file = file,
                   !.pc = "spawning"]
    ELSE Finalize(s, TRUE)

\* (mutant) the original file is played whatever the play offset
BeginIterationNoTrim(s, ok) == StartProcess(s, 0, ok)

\* Top of the inner `while True`: trim when play_offset > 0, else play the
\* original file.
BeginIteration(s, ok) ==
    IF s.play_offset > 0 THEN [s EXCEPT !.pc = "trim"]
    ELSE StartProcess(s, 0, ok)

\* (mutant) the offset reached before the pause is dropped
PausedOffsetElapsedOnly(p, e) == e

\* (mutant) the elapsed time is subtracted
PausedOffsetBack(p, e) == p - e

\* play_offset += elapsed
PausedOffset(p, e) == p + e

\* (mutant) every non-zero exit status counts as a failure
PlayFailedAnyNonZero(ret, requested) == ret # 0

\* if ret != 0 and not self._pause_requested: play_failed = True
PlayFailed(ret, requested) == ret # 0 /\ ~requested

\* After `ret = await self._process.wait()`: the failed test, the cleanup of
\* the trimmed file and the seek / pause / break branches.
AfterExit(s, ok) ==
    LET s1 == [s EXCEPT !.play_failed = s.play_failed
                                        \/ PlayFailed(s.ret_code, s.pause_requested),
                        !.trim_live = IF s.trimmed_path # NoPath
                                      THEN s.trim_live - 1 ELSE s.trim_live,
                        !.trimmed_path = NoPath,
                        !.ret_code = 0, !.play_file = 0, !.elapsed = 0]
    IN  IF s1.pause_requested
        THEN IF s1.seek_offset # NoSeek
             THEN BeginIteration(
                    [s1 EXCEPT !.play_offset = s1.seek_offset,
                               !.seek_offset = NoSeek,
                               !.pause_requested = FALSE,
                               !.process = FALSE, !.proc = "none",
                               !.cycle = [kind |-> "seek", from |-> s.play_file,
                                          p |-> s1.play_offset, e |-> 0]], ok)
             ELSE LET e  == s.elapsed
                      s2 == [s1 EXCEPT
                               !.play_offset = PausedOffset(s1.play_offset, e),
                               !.pause_requested = FALSE,
                               !.process = FALSE, !.proc = "none",
                               !.cycle = [kind |-> "pause", from |-> s.play_file,
                                          p |-> s1.play_offset, e |-> e]]
                  IN  IF s2.resume_event THEN BeginIteration(s2, ok)
                      ELSE [s2 EXCEPT !.pc = "paused_wait"]
        ELSE Finalize(s1, s1.play_failed)

\* ---------------------------------------------------------------- handlers
\* (mutant) the entry is built and enqueued whatever the synthesis returned
SpeakTailAlways(s, ok, c, p) ==
    [enqueue([s EXCEPT !.files = s.files \cup {s.next_id},
                       !.next_id = s.next_id + 1],
             QueueEntry(s.next_id, c, p, FALSE))
        EXCEPT !.ret = [code |-> IF ok THEN 200 ELSE 502, id |-> s.next_id]]

\* handle_speak / handle_speak_dialogue from the return of the synthesis
\* thread on: HTTPError and URLError give a 502 reply; otherwise the audio
\* file exists, the entry is built and enqueued.
SpeakTail(s, ok, c, p) ==
    IF ok
    THEN [enqueue([s EXCEPT !.files = s.files \cup {s.next_id},
                            !.next_id = s.next_id + 1],
                  QueueEntry(s.next_id, c, p, FALSE))
             EXCEPT !.ret = [code |-> 200, id |-> s.next_id]]
    ELSE [s EXCEPT !.ret = [code |-> 502, id |-> 0]]

\* AudioQueue.find_history as an index in the history: the most recent
\* record with that id, 0 when there is none
find_history(h, history_id) ==
    LET hits == {i \in 1..Len(h) : h[i].id = history_id}
    IN  IF hits = {} THEN 0 ELSE CHOOSE i \in hits : \A j \in hits : i >= j

\* cache_path = queue._cache_dir / f"{history_id}.mp3", as the id the file
\* is stored under
CachePath(s, history_id) == history_id

\* handle_history_replay: 404 with no record or no cache file; otherwise the
\* cache file is copied to a new temp file, enqueued as a replay entry on
\* the record's channel.  ret.src is the cache file that was copied.
\* `swept`: the cleanup thread unlinks the cache file between
\* cache_path.exists() and cache_path.read_bytes(); the read raises
\* FileNotFoundError out of the handler, which the server answers with 500.
history_replay(s, history_id, swept) ==
    LET i == find_history(s.history, history_id)
    IN  IF i = 0
        THEN [s EXCEPT !.ret = [code |-> 404, id |-> 0, src |-> 0]]
        ELSE IF CachePath(s, history_id) \notin s.cache
        THEN [s EXCEPT !.ret = [code |-> 404, id |-> 0, src |-> 0]]
        ELSE IF swept
        THEN [s EXCEPT !.cache = s.cache \ {CachePath(s, history_id)},
                       !.ret = [code |-> 500, id |-> 0, src |-> 0]]
        ELSE [enqueue([s EXCEPT !.files = s.files \cup {s.next_id},
                                !.next_id = s.next_id + 1],
                      QueueEntry(s.next_id, s.history[i].channel, FALSE, TRUE))
                 EXCEPT !.ret = [code |-> 200, id |-> s.next_id,
                                 src |-> CachePath(s, history_id)]]

\* ------------------------------------------------------------------ actions
\* handle_speak / handle_speak_dialogue after a successful synthesis.
Speak(c, p) ==
    /\ next_id <= MaxEntries
    /\ Apply(SpeakTail(St, TRUE, c, p))

\* handle_history_replay for a history id h that has a record and a cached
\* file.
Replay(h) ==
    /\ next_id <= MaxEntries
    /\ history_replay(St, h, FALSE).ret.code = 200
    /\ Apply(history_replay(St, h, FALSE))

\* handle_queue_pause, handle_queue_resume, handle_queue_seek,
\* handle_queue_skip and handle_queue_clear call the queue's method.
Pause(c) ==
    /\ c \in ChannelArgs
    /\ Apply(pause(St, c))

Resume(c) ==
    /\ c \in ChannelArgs
    /\ Apply(resume(St, c))

Seek(o) ==
    /\ o \in SeekArgs
    /\ Apply(seek(St, o))

Skip ==
    /\ TRUE
    /\ Apply(skip(St))

Clear(c) ==
    /\ c \in ChannelArgs
    /\ Apply(clear(St, c))

\* The worker returns from `await self._has_items.wait()`.
WakeItems ==
    /\ pc = "woke_items"
    /\ Apply((AfterHasItems(St)))

\* The worker returns from `await self._resume_event.wait()` before a pick.
WakeResume ==
    /\ pc = "woke_resume"
    /\ Apply((PickAndStart(St)))

\* The duration probe and the envelope extraction return.
ProbeDone ==
    /\ pc = "probe"
    /\ Apply(([St EXCEPT !.pc = "cache"]))

\* The cache copy returns (written or, on an error, silently not); the
\* play loop is entered with play_offset = 0.  The copy is taken to succeed:
\* nothing the scheduler reads depends on it.
CacheDone(written, ok) ==
    /\ pc = "cache"
    /\ Apply((BeginIteration(
         [St EXCEPT !.cache = IF written THEN cache \cup {current.id} ELSE cache],
         ok)))

\* _trim_audio returns the trimmed file, or raises after mkstemp made it.
TrimDone(ok) ==
    /\ pc = "trim"
    /\ Apply((IF ok
             THEN [St EXCEPT !.trimmed_path = play_offset,
                             !.trim_live = trim_live + 1, !.pc = "probe2"]
             ELSE Finalize([St EXCEPT !.trim_live = trim_live + 1], TRUE)))

\* The probe of the trimmed file returns; the player is started on it.
Probe2Done(ok) ==
    /\ pc = "probe2"
    /\ Apply((StartProcess(St, trimmed_path, ok)))

\* create_subprocess_exec returns: _process and _play_start are assigned,
\* voice_active is published and the worker awaits the process.
SpawnDone ==
    /\ pc = "spawning"
    /\ Apply(Emit([St EXCEPT !.process = TRUE, !.elapsed = 0, !.pc = "playing",
                            !.cycle = NoCycle],
                 <<Event("voice_active", current, deque, current, files,
                         history)>>))

\* The player ends by itself, with exit status 0 or an error.
ProcExit(code) ==
    /\ proc = "running"
    /\ Apply(([St EXCEPT !.proc = "exited", !.ret_code = code]))

\* The event loop learns of the exit: returncode is set, the worker scheduled.
Reap ==
    /\ pc = "playing"
    /\ proc = "exited"
    /\ Apply(([St EXCEPT !.proc = "reaped", !.pc = "woke_proc"]))

\* The worker returns from `await self._process.wait()`.
HandleExit(ok) ==
    /\ pc = "woke_proc"
    /\ Apply((AfterExit(St, ok)))

\* The worker returns from the `await self._resume_event.wait()` of a pause.
WakePaused(ok) ==
    /\ pc = "paused_woke"
    /\ Apply((BeginIteration(St, ok)))

\* Time passes while a player process is awaited.
Tick ==
    /\ pc = "playing"
    /\ play_offset + elapsed < MaxOffset
    /\ Apply(([St EXCEPT !.elapsed = elapsed + 1]))

Next ==
    \/ \E c \in ChannelArgs, p \in BOOLEAN : Speak(c, p)
    \/ \E h \in 1..MaxEntries : Replay(h)
    \/ \E c \in ChannelArgs : Pause(c)
    \/ \E c \in ChannelArgs : Resume(c)
    \/ \E o \in SeekArgs : Seek(o)
    \/ Skip
    \/ \E c \in ChannelArgs : Clear(c)
    \/ WakeItems
    \/ WakeResume
    \/ ProbeDone
    \/ \E w \in CacheWrites, ok \in BOOLEAN : CacheDone(w, ok)
    \/ \E ok \in BOOLEAN : TrimDone(ok)
    \/ \E ok \in BOOLEAN : Probe2Done(ok)
    \/ SpawnDone
    \/ \E code \in {0, 1} : ProcExit(code)
    \/ Reap
    \/ \E ok \in BOOLEAN : HandleExit(ok)
    \/ \E ok \in BOOLEAN : WakePaused(ok)
    \/ Tick

Spec == Init /\ [][Next]_vars

\* ------------------------------------------------ the history, in isolation
\* An entry is built, enqueued, picked, played and finalized with no other
\* call in between; of the whole run only what the finally block does to
\* _history is kept (lines 507-520).  Entries are numbered in the order in
\* which they are finalized.
Played ==
    /\ next_id <= MaxPlayed
    /\ history' = HistoryAppend(history,
                      [id |-> next_id, channel |-> NoChannel, failed |-> FALSE])
    /\ next_id' = next_id + 1
    /\ UNCHANGED <<deque, has_items, paused_global, resume_event,
                   paused_channels, current, process, proc, ret_code,
                   pause_requested, elapsed, seek_offset, files, cache,
                   trim_live, pc, play_offset, play_failed, trimmed_path,
                   play_file, cycle>>
    /\ UNCHANGED <<broadcaster, requests, backend>>

HistoryNext == Played

HistorySpec == Init /\ [][HistoryNext]_vars

\* ------------------------------------------------------ the worker's trace
\* AudioQueue.start(): the worker task is created, the trace begins.
Started == [type |-> "start", id |-> 0, queued |-> 0, replay |-> FALSE,
            cur |-> 0, file |-> FALSE, rec |-> FALSE]

\* create_subprocess_exec returns, as long as the trace is short.
TraceSpawn ==
    /\ Len(trace) < MaxEvents
    /\ SpawnDone

\* The requests are for the default lane without priority; every control
\* call and every outcome of a worker step is there.
TraceNext ==
    \/ Speak(NoChannel, FALSE)
    \/ \E h \in 1..MaxEntries : Replay(h)
    \/ Pause(NoChannel)
    \/ Resume(NoChannel)
    \/ \E o \in SeekArgs : Seek(o)
    \/ Skip
    \/ Clear(NoChannel)
    \/ WakeItems
    \/ WakeResume
    \/ ProbeDone
    \/ \E w \in CacheWrites, ok \in BOOLEAN : CacheDone(w, ok)
    \/ \E ok \in BOOLEAN : TrimDone(ok)
    \/ \E ok \in BOOLEAN : Probe2Done(ok)
    \/ TraceSpawn
    \/ \E code \in {0, 1} : ProcExit(code)
    \/ Reap
    \/ \E ok \in BOOLEAN : HandleExit(ok)
    \/ \E ok \in BOOLEAN : WakePaused(ok)
    \/ Tick

TraceInit ==
    /\ QueueInit
    /\ broadcaster = <<Started>>
    /\ requests = Off
    /\ backend = Off

TraceSpec == TraceInit /\ [][TraceNext]_vars

\* ------------------------------------------------- the dialogue timings
\* In TimingSpec `requests` is the entry a dialogue or speak request built,
\* as the worker holds it from the pick to the play loop: its entry_type, its
\* dialogue_segments (chars, start, end), the probed duration and the
\* worker's position.  A duration is a whole number of parts, Finer parts to
\* the thousandth of a second; the arithmetic is exact.
entry == requests

\* round(x, 3) for x = n / m thousandths, n >= 0: the nearest whole number of
\* thousandths, the even one of the two when x is half-way
RoundHalfEven(n, m) ==
    LET q == n \div m
        r == n % m
    IN  IF 2 * r < m THEN q
        ELSE IF 2 * r > m THEN q + 1
        ELSE IF q % 2 = 0 THEN q ELSE q + 1

RECURSIVE TotalChars(_)
\* sum(s.get("chars", 1) for s in entry.dialogue_segments)
TotalChars(segs) ==
    IF segs = <<>> THEN 0 ELSE Head(segs).chars + TotalChars(Tail(segs))

\* max(total_chars, 1)
Max1(n) == IF n > 1 THEN n ELSE 1

\* (mutant) the division by the total is left out: every segment gets the
\* whole duration
SegDurWhole(chars, total_chars, duration) ==
    [num |-> duration, den |-> Finer]

\* seg_dur = (seg.get("chars", 1) / max(total_chars, 1)) * duration, in
\* thousandths, as the fraction num / den
SegDur(chars, total_chars, duration) ==
    [num |-> chars * duration, den |-> Max1(total_chars) * Finer]

RECURSIVE SegmentTimings(_, _, _, _)
\* for seg in entry.dialogue_segments: ... with seg_offset = offset / den
\* thousandths at the head of segs (den is the same for every segment)
SegmentTimings(segs, offset, total_chars, duration) ==
    IF segs = <<>> THEN <<>>
    ELSE LET seg_dur == SegDur(Head(segs).chars, total_chars, duration)
         IN  <<[chars |-> Head(segs).chars,
                start |-> RoundHalfEven(offset, seg_dur.den),
                end   |-> RoundHalfEven(offset + seg_dur.num, seg_dur.den)]>>
             \o SegmentTimings(Tail(segs), offset + seg_dur.num,
                               total_chars, duration)

\* if entry.entry_type == "dialogue" and entry.dialogue_segments and
\* duration: ... (lines 410-417); None and 0.0 are both false
Timed(e) ==
    IF e.type = "dialogue" /\ e.segments # <<>>
       /\ e.duration # NoDuration /\ e.duration # 0
    THEN [e EXCEPT !.segments = SegmentTimings(e.segments, 0,
                                               TotalChars(e.segments),
                                               e.duration)]
    ELSE e

\* segments = [{"voice": lbl, "text": ..., "chars": len(line["text"])} ...]
NewSegment(c) == [chars |-> c, start |-> NoTime, end |-> NoTime]

\* The entries the handlers build: a speak entry has no segments, a dialogue
\* entry one segment per line of the request, each of a text that is not
\* empty, and the replay of a dialogue has entry_type "dialogue" and no
\* segments.
Built ==
    {[type |-> "speak", segments |-> <<>>, duration |-> NoDuration,
      step |-> "probe"]}
    \cup {[type |-> "dialogue", segments |-> [i \in 1..n |-> NewSegment(cs[i])],
           duration |-> NoDuration, step |-> "probe"] :
             n \in 0..MaxSegments, cs \in [1..MaxSegments -> 1..MaxChars]}

\* _get_audio_duration returns: None, or the duration afinfo printed
DurationProbed(d) ==
    /\ entry.step = "probe"
    /\ requests' = [entry EXCEPT !.duration = d, !.step = "timing"]
    /\ UNCHANGED <<qvars, broadcaster, backend>>

\* The worker goes through lines 410-417 and enters the play loop.
DialogueTimed ==
    /\ entry.step = "timing"
    /\ requests' = [Timed(entry) EXCEPT !.step = "play"]
    /\ UNCHANGED <<qvars, broadcaster, backend>>

TimingNext ==
    \/ \E d \in {NoDuration} \cup 0..MaxDuration : DurationProbed(d)
    \/ DialogueTimed

TimingInit ==
    /\ QueueInit
    /\ requests \in Built
    /\ broadcaster = NoTrace
    /\ backend = Off

TimingSpec == TimingInit /\ [][TimingNext]_vars

\* ------------------------------------------- the history pages, in isolation
\* An entry of channel c is finalized, as played or as failed; of the whole
\* run only its history record is kept (lines 507-520).
Recorded(c, f) ==
    /\ Len(history) < MaxRecords
    /\ Apply([St EXCEPT !.history = HistoryAppend(history,
                                       [id |-> next_id, channel |-> c,
                                        failed |-> f]),
                        !.next_id = next_id + 1])

PageNext == \E c \in ChannelArgs, f \in BOOLEAN : Recorded(c, f)

PageSpec == Init /\ [][PageNext]_vars

\* ------------------------------------- the request handlers and the cache
\* shutil.copy2(entry.audio_path, cache_path) in the worker is the only
\* write in the cache directory: the cache file of an id, while it exists,
\* holds the audio of the temp file of the entry of that id (0: no file).
cache_audio(h) == IF h \in cache /\ h \in 1..Len(audio) THEN audio[h] ELSE 0

NextReply(op, r, arg) ==
    [op |-> op, code |-> r.code, id |-> r.id, arg |-> arg, seq |-> 1 - reply.seq]

\* A speak or dialogue handler has validated its request and awaits
\* asyncio.to_thread(_fetch_tts / _fetch_dialogue).
SpeakRequest(k) ==
    /\ synth[k] < MaxInflight
    /\ requests' = Requests(audio, [synth EXCEPT ![k] = @ + 1], reply)
    /\ UNCHANGED <<qvars, broadcaster, backend>>

\* The synthesis thread returns, with the audio file or with an HTTPError or
\* URLError, and the handler runs to its reply.
SynthReturn(k, ok, c, p) ==
    /\ synth[k] > 0
    /\ ok => next_id <= MaxRequests
    /\ ApplyQ(SpeakTail(St, ok, c, p))
    /\ requests' = Requests(IF SpeakTail(St, ok, c, p).next_id # next_id
                            THEN Append(audio, next_id)
                            ELSE audio,
                            [synth EXCEPT ![k] = @ - 1],
                            NextReply(k, SpeakTail(St, ok, c, p).ret, 0))
    /\ UNCHANGED <<broadcaster, backend>>

\* handle_history_replay for any id, known or not, cached or not, with the
\* cleanup thread running beside it or not.
ReplayRequest(h, swept) ==
    /\ history_replay(St, h, swept).ret.code = 200 => next_id <= MaxRequests
    /\ ApplyQ(history_replay(St, h, swept))
    /\ requests' = Requests(
          IF history_replay(St, h, swept).ret.code = 200
          THEN Append(audio, cache_audio(history_replay(St, h, swept).ret.src))
          ELSE audio,
          synth,
          NextReply("replay", history_replay(St, h, swept).ret, h))
    /\ UNCHANGED <<broadcaster, backend>>

\* _clean_old_cache, in its thread: a cache file old enough is unlinked.
Sweep(h) ==
    /\ h \in cache
    /\ Apply([St EXCEPT !.cache = cache \ {h}])

\* The requests are for the default lane without priority, and the worker
\* plays every entry through: neither changes what a handler does.
RequestNext ==
    \/ \E k \in Kinds : SpeakRequest(k)
    \/ \E k \in Kinds, ok \in BOOLEAN : SynthReturn(k, ok, NoChannel, FALSE)
    \/ \E h \in 1..MaxRequests, swept \in BOOLEAN : ReplayRequest(h, swept)
    \/ \E h \in 1..MaxRequests : Sweep(h)
    \/ WakeItems
    \/ ProbeDone
    \/ \E w \in CacheWrites : CacheDone(w, TRUE)
    \/ SpawnDone
    \/ ProcExit(0)
    \/ Reap
    \/ HandleExit(TRUE)

RequestInit ==
    /\ QueueInit
    /\ requests = Requests(<<>>, [k \in Kinds |-> 0], NoReply)
    /\ broadcaster = NoTrace
    /\ backend = Off

RequestSpec == RequestInit /\ [][RequestNext]_vars

\* ------------------------------------------------- the Linux audio backend
Candidates == <<"paplay", "mpv", "aplay">>

RECURSIVE FirstWhich(_, _)
\* for cmd in (...): if shutil.which(cmd): return cmd -- "none" at the end
FirstWhich(cmds, avail) ==
    IF cmds = <<>> THEN "none"
    ELSE IF Head(cmds) \in avail THEN Head(cmds)
    ELSE FirstWhich(Tail(cmds), avail)

\* LinuxBackend._detect_player
detect_player(avail) ==
    IF FirstWhich(Candidates, avail) # "none"
    THEN FirstWhich(Candidates, avail)
    ELSE "paplay"

\* A player is installed on, or removed from, the machine.
Install(c) ==
    /\ c \notin installed
    /\ backend' = Backend(installed \cup {c}, player, spawned)
    /\ UNCHANGED <<qvars, broadcaster, requests>>

Uninstall(c) ==
    /\ c \in installed
    /\ backend' = Backend(installed \ {c}, player, spawned)
    /\ UNCHANGED <<qvars, broadcaster, requests>>

\* LinuxBackend.__init__
NewBackend ==
    /\ backend' = Backend(installed, detect_player(installed), spawned)
    /\ UNCHANGED <<qvars, broadcaster, requests>>

\* LinuxBackend.play: the command started; starting it fails when the
\* player is not installed
Play ==
    /\ player # "unset"
    /\ backend' = Backend(installed, player,
                          [cmd |-> IF player = "mpv"
                                   THEN <<"mpv", "--no-video", "--no-terminal">>
                                   ELSE <<player>>,
                           ok |-> player \in installed])
    /\ UNCHANGED <<qvars, broadcaster, requests>>

BackendNext ==
    \/ \E c \in Players : Install(c)
    \/ \E c \in Players : Uninstall(c)
    \/ NewBackend
    \/ Play

BackendInit ==
    /\ QueueInit
    /\ backend = Backend({}, "unset", [cmd |-> <<>>, ok |-> FALSE])
    /\ broadcaster = NoTrace
    /\ requests = Off

BackendSpec == BackendInit /\ [][BackendNext]_vars

\* ------------------------------------------- the broadcaster, in isolation
Range(seq) == {seq[i] : i \in 1..Len(seq)}

\* (mutant) put() instead of put_nowait(): a full queue is left alone and its
\* subscriber stays subscribed
SendKeepsFull(cl, bf, msg) ==
    [clients |-> cl,
     buf |-> [q \in DOMAIN bf |->
                IF q \in Range(cl) /\ Len(bf[q]) < MAX_SSE_QUEUE
                THEN Append(bf[q], msg) ELSE bf[q]]]

\* SSEBroadcaster.send: put_nowait on every subscribed queue; the queues that
\* raise QueueFull are removed from _clients.
Send(cl, bf, msg) ==
    LET full(q) == Len(bf[q]) >= MAX_SSE_QUEUE
    IN  [clients |-> SelectSeq(cl, LAMBDA q : ~full(q)),
         buf |-> [q \in DOMAIN bf |->
                    IF q \in Range(cl) /\ ~full(q)
                    THEN Append(bf[q], msg) ELSE bf[q]]]

\* SSEBroadcaster.unsubscribe: remove, ValueError swallowed
Unsubscribe(cl, q) == SelectSeq(cl, LAMBDA r : r # q)

\* handle_events: subscribe() and return the streaming response; the
\* generator has not run yet.
Connect(q) ==
    /\ q = Len(streams) + 1
    /\ sent <= MaxLate
    /\ broadcaster' = Broadcaster(Append(clients, q), sent,
                                  Streams(q, [stream EXCEPT ![q] = "open"], buf,
                                          [base EXCEPT ![q] = sent], snap, taken))
    /\ UNCHANGED <<qvars, requests, backend>>

\* The response starts to iterate stream(): status() and get_history() are
\* read and the `state` event is yielded.
Snapshot(q) ==
    /\ stream[q] = "open"
    /\ broadcaster' = Broadcaster(clients, sent,
                                  Streams(Len(streams),
                                          [stream EXCEPT ![q] = "live"], buf,
                                          base, [snap EXCEPT ![q] = sent], taken))
    /\ UNCHANGED <<qvars, requests, backend>>

\* msg = await client_q.get(); yield msg
Deliver(q) ==
    /\ stream[q] = "live"
    /\ buf[q] # <<>>
    /\ taken[1] + taken[2] < MaxGets
    /\ broadcaster' = Broadcaster(clients, sent,
                                  Streams(Len(streams), stream,
                                          [buf EXCEPT ![q] = Tail(buf[q])],
                                          base, snap,
                                          [taken EXCEPT ![q] = taken[q] + 1]))
    /\ UNCHANGED <<qvars, requests, backend>>

\* The client goes away.  A started generator is cancelled: its finally
\* block unsubscribes and its queue is dropped with it.  One that never
\* started has no finally block to run, and its queue stays subscribed.
Disconnect(q) ==
    /\ stream[q] \in {"open", "live"}
    /\ broadcaster' = Broadcaster(
          IF stream[q] = "live" THEN Unsubscribe(clients, q) ELSE clients,
          sent,
          Streams(Len(streams), [stream EXCEPT ![q] = "closed"],
                  IF stream[q] = "live" THEN [buf EXCEPT ![q] = <<>>] ELSE buf,
                  base, snap, taken))
    /\ UNCHANGED <<qvars, requests, backend>>

\* The worker or a pause/resume handler publishes an event.
Publish ==
    /\ sent < MaxSent
    /\ \A q \in Subscribers : stream[q] = "open" => sent - base[q] < MaxStale
    /\ LET r == Send(clients, buf, sent + 1)
       IN  broadcaster' = Broadcaster(r.clients, sent + 1,
                                      Streams(Len(streams), stream, r.buf,
                                              base, snap, taken))
    /\ UNCHANGED <<qvars, requests, backend>>

BroadcastNext ==
    \/ \E q \in Subscribers : Connect(q)
    \/ \E q \in Subscribers : Snapshot(q)
    \/ \E q \in Subscribers : Deliver(q)
    \/ \E q \in Subscribers : Disconnect(q)
    \/ Publish

BroadcastInit ==
    /\ QueueInit
    /\ broadcaster = Broadcaster(<<>>, 0, <<>>)
    /\ requests = Off
    /\ backend = Off

BroadcastSpec == BroadcastInit /\ [][BroadcastNext]_vars

\* ------------------------------------------------------------------ claims
\* The worker picks an entry in this step (also in the step that finalizes
\* the previous one): _current becomes a new entry.
Picks == current' # None /\ current' # current

\* e's channel is in the paused-channel set ps
OnPausedChannel(e, ps) == e.channel \in ps

\* C1: from pause() with no channel until resume() with no channel no player
\* process runs: none is spawned, and one running at the call is killed.
C1_NoPlayerWhileGloballyPaused == paused_global => proc # "running"

\* C2: every pick happens in a state where the global pause is off: while
\* the flag is set the worker removes no entry from the pending sequence.
C2_NoPickWhileGloballyPaused == [][Picks => ~paused_global]_vars

\* C3: an entry pending on a channel that has been resumed, with the global
\* pause off, is eventually picked without a further enqueue.  The worker
\* blocked in `await self._has_items.wait()` with the event clear is woken
\* by enqueue alone, so the claim requires that it is never blocked there
\* while an entry of a non-paused channel is pending and the global pause
\* is off.
C3_ResumedChannelEntryIsPicked ==
    (pc = "wait_items" /\ ~has_items /\ ~paused_global)
        => \A i \in 1..Len(deque) : OnPausedChannel(deque[i], paused_channels)

\* C4: enqueue puts a priority entry at the head and any other entry at the
\* tail of the pending sequence, and leaves the entries already pending in
\* their order.
C4_EnqueuePlacement ==
    [][next_id' # next_id =>
         \E k \in 1..Len(deque') :
            /\ deque'[k].id = next_id
            /\ RemoveAt(deque', k) = deque
            /\ k = (IF deque'[k].priority THEN 1 ELSE Len(deque'))]_vars

C4_Witness ==
    /\ Len(deque) >= 2
    /\ deque[1].priority /\ ~deque[2].priority
    /\ deque[1].id > deque[2].id

\* C5: the value enqueue returns is the 1-based position the entry has in
\* the pending sequence right after the insertion.
C5_EnqueueReturnsPosition ==
    [][next_id' # next_id =>
         \E k \in 1..Len(deque') :
            deque'[k].id = next_id /\ EnqueueRet(deque') = k]_vars

\* C6: of two non-priority entries on the same channel (or both on the
\* default lane) the one enqueued first is picked first: while one is
\* current, no such entry enqueued before it is still pending.
C6_FifoWithinChannel ==
    (current # None /\ ~current.priority) =>
        \A i \in 1..Len(deque) :
            ~(/\ deque[i].channel = current.channel
              /\ ~deque[i].priority
              /\ deque[i].id < current.id)

C6_Witness ==
    /\ current # None /\ ~current.priority /\ current.channel \in Channels
    /\ \E i \in 1..Len(deque) :
          /\ deque[i].channel = current.channel
          /\ ~deque[i].priority
          /\ deque[i].id > current.id

\* C7 as stated: A (no channel, non-priority) is enqueued, then B with
\* priority; B is played before A, so A is never current while B is pending.
C7_PriorityPlaysBeforeEarlier ==
    (current # None /\ ~current.priority /\ current.channel = NoChannel) =>
        \A i \in 1..Len(deque) :
            ~(deque[i].priority /\ deque[i].id > current.id)

\* C7 amended: when the worker picks A (no channel, non-priority), every
\* priority entry enqueued after A and pending at that pick is on a paused
\* channel; so B, enqueued while A was still pending, is picked before A.
C7_PriorityFirstWhenBothPending ==
    [][(Picks /\ ~current'.priority /\ current'.channel = NoChannel) =>
         \A i \in 1..Len(deque) :
            (deque[i].priority /\ deque[i].id > current'.id)
                => OnPausedChannel(deque[i], paused_channels)]_vars

C7_Witness ==
    /\ current # None /\ current.priority /\ current.channel = NoChannel
    /\ \E i \in 1..Len(deque) :
          /\ ~deque[i].priority /\ deque[i].channel = NoChannel
          /\ deque[i].id < current.id

\* C8: the entry picked is never on a paused channel; the entries passed
\* over before it are all on paused channels and stay pending, and the
\* pending sequence loses the picked entry only, its order unchanged.
C8_PausedChannelNeverPicked ==
    [][Picks =>
         \E k \in 1..Len(deque) :
            /\ deque[k] = current'
            /\ ~OnPausedChannel(current', paused_channels)
            /\ \A j \in 1..(k - 1) : OnPausedChannel(deque[j], paused_channels)
            /\ deque' = RemoveAt(deque, k)]_vars

C8_Witness ==
    /\ current # None /\ ~current.priority /\ current.channel = NoChannel
    /\ Len(deque) >= 1
    /\ ~deque[1].priority /\ deque[1].id < current.id
    /\ OnPausedChannel(deque[1], paused_channels)

\* C9: after a global pause interrupted the entry at play offset p with e
\* seconds played, the next player process plays the file trimmed at p + e;
\* for e > 0 that is never the start of the audio.
C9_ResumeAtPausedOffset ==
    (pc = "spawning" /\ cycle.kind = "pause") =>
        /\ play_file = cycle.p + cycle.e
        /\ (cycle.p + cycle.e > 0 => trimmed_path = play_file)
        /\ (cycle.e > 0 => play_file > 0)

C9_Witness ==
    pc = "spawning" /\ cycle.kind = "pause" /\ cycle.p > 0 /\ cycle.e > 0

\* C10: across a pause/resume cycle the offset of the next player spawn is
\* not less than the offset of the spawn before it.
C10_OffsetNonDecreasing ==
    (pc = "spawning" /\ cycle.kind = "pause") => play_file >= cycle.from

C10_Witness ==
    /\ pc = "spawning" /\ cycle.kind = "pause"
    /\ cycle.from > 0 /\ play_file > cycle.from

\* The worker's suspension points at which the current entry has no player
\* process assigned: it is being probed, cached or trimmed, or it is paused.
NoProcessYet == {"probe", "cache", "trim", "probe2", "paused_wait", "paused_woke"}

\* C11: seek(offset) returns true only when there is a current entry whose
\* player process is assigned and not yet reaped; it returns false when the
\* queue is idle and when the current entry is paused or still being probed
\* or trimmed, and a call that returns false sets neither the pending-seek
\* offset nor the pause-requested flag.
C11_SeekOnlyWhilePlaying ==
    \A o \in SeekArgs :
        \A t \in {seek(St, o)} :
            /\ t.ret \in {0, 1}
            /\ t.ret = 1 => (current # None /\ pc = "playing" /\ process
                             /\ proc \in {"running", "exited"})
            /\ (current = None \/ pc \in NoProcessYet) => t.ret = 0
            /\ t.ret = 0 => (/\ t.seek_offset = seek_offset
                             /\ t.pause_requested = pause_requested
                             /\ t.proc = proc)

\* seek(1) has returned true on the playing entry, whose player is killed
\* and not yet reaped
C11_Witness ==
    pc = "playing" /\ seek_offset = 1 /\ pause_requested /\ proc = "exited"

\* C12 as stated: after a seek the worker generates a trimmed file that
\* starts at the seek offset and plays it.
C12_SeekPlaysTrimmedFile ==
    (pc = "spawning" /\ cycle.kind = "seek") =>
        (trimmed_path # NoPath /\ trimmed_path = play_offset)

\* C12 amended: a seek(o) that returns true leaves the player killed (or
\* already dead) with o pending; when the worker handles that exit it takes
\* the last offset recorded, does not wait for a resume signal, and starts a
\* player at that offset: on a trimmed file generated at the offset when it
\* is positive, on the original file when it is 0 (unless the trim or the
\* start of the player raises, which fails the entry).  A playback that ends
\* with exit code 0 and no request pending is finalized with failed = false.
C12_SeekRestartsAtOffset ==
    /\ \A o \in SeekArgs :
          \A t \in {seek(St, o)} :
              t.ret = 1 => (/\ t.proc = "exited"
                            /\ t.seek_offset = o
                            /\ t.pause_requested)
    /\ (pc = "woke_proc" /\ pause_requested /\ seek_offset # NoSeek) =>
          \A ok \in BOOLEAN :
             \A t \in {AfterExit(St, ok)} :
                 /\ t.pc \notin {"paused_wait", "paused_woke"}
                 /\ (seek_offset > 0 \/ ok) => t.history = history
                 /\ seek_offset > 0 =>
                       (t.pc = "trim" /\ t.play_offset = seek_offset)
                 /\ (seek_offset = 0 /\ ok) =>
                       (/\ t.pc = "spawning" /\ t.proc = "running"
                        /\ t.play_file = 0 /\ t.trimmed_path = NoPath)
    /\ cycle.kind = "seek" =>
          /\ pc \in {"trim", "probe2", "spawning"}
          /\ pc = "probe2" => trimmed_path = play_offset
          /\ pc = "spawning" =>
                /\ play_file = play_offset
                /\ play_offset > 0 => trimmed_path = play_offset
    /\ (pc = "woke_proc" /\ ret_code = 0 /\ ~pause_requested) =>
          \A ok \in BOOLEAN :
             \A t \in {AfterExit(St, ok)} :
                 /\ t.current # current
                 /\ ~current.is_replay =>
                       /\ Len(t.history) = Len(history) + 1
                       /\ t.history[Len(t.history)].id = current.id
                       /\ ~t.history[Len(t.history)].failed

\* after a seek(1) the player is started on the file trimmed at 1
C12_Witness ==
    /\ pc = "spawning" /\ cycle.kind = "seek"
    /\ play_file = 1 /\ trimmed_path = 1 /\ proc = "running"

\* C13: clear() with no channel empties the pending sequence, deletes the
\* audio file of every removed entry, kills the player process if one is
\* running (no player runs when it returns), and returns the number of
\* removed entries plus one for the process it called kill on.
C13_ClearAllStopsEverything ==
    LET t == clear(St, NoChannel)
        removed == {deque[i].id : i \in 1..Len(deque)}
        handle == process /\ proc \in {"running", "exited"}
    IN  /\ t.deque = <<>>
        /\ t.files = files \ removed
        /\ t.ret = Len(deque) + (IF handle THEN 1 ELSE 0)
        /\ t.proc # "running"

\* C14: clear(channel=X) removes exactly the pending entries of channel X,
\* deletes their files and returns their number; the other entries stay
\* pending in their order with their files, and the current entry, its file
\* and its player process are untouched, also when it is on channel X.
C14_ClearChannelFrame ==
    \A c \in Channels :
        \A t \in {clear(St, c)} :
        LET mine == {i \in 1..Len(deque) : deque[i].channel = c}
        IN  /\ t.deque = SelectSeq(deque, LAMBDA e : e.channel # c)
            /\ t.files = files \ {deque[i].id : i \in mine}
            /\ t.ret = Cardinality(mine)
            /\ t.current = current
            /\ current # None => (current.id \in files <=> current.id \in t.files)
            /\ t.process = process /\ t.proc = proc /\ t.ret_code = ret_code
            /\ t.pause_requested = pause_requested
            /\ t.seek_offset = seek_offset
            /\ t.pc = pc

\* the current entry is on channel x with its player running and an entry
\* of x is pending: clear("x") removes the pending one only
C14_Witness ==
    /\ current # None /\ current.channel = "x" /\ proc = "running" /\ process
    /\ Len(deque) = 1 /\ deque[1].channel = "x"
    /\ clear(St, "x").ret = 1
    /\ clear(St, "x").files = {current.id}

\* C15: skip() kills the player process and returns true if one is running;
\* a call that returns false changes nothing, and no call changes the
\* pending sequence, the pause flags or the current entry.
C15_SkipKillsRunningPlayer ==
    LET t == skip(St)
    IN  /\ t.ret \in {0, 1}
        /\ proc = "running" => (t.ret = 1 /\ t.proc = "exited")
        /\ t.ret = 0 => t = St
        /\ t.deque = deque /\ t.current = current
        /\ t.paused_global = paused_global
        /\ t.paused_channels = paused_channels
        /\ t.pause_requested = pause_requested

\* C16: skip() on a running player of a non-replay entry kills it and sets no
\* interruption marker; when the worker then handles the exit of a killed
\* player with no pause or seek pending, it finalizes the entry and the
\* history record appended for it has failed = true.
C16_SkipRecordedAsFailed ==
    /\ (process /\ proc = "running" /\ ~current.is_replay) =>
          \A t \in {skip(St)} :
              /\ t.ret = 1 /\ t.proc = "exited" /\ t.ret_code = Killed
              /\ t.pause_requested = pause_requested
              /\ t.seek_offset = seek_offset
    /\ (pc = "woke_proc" /\ ret_code = Killed /\ ~pause_requested
        /\ ~current.is_replay) =>
          \A ok \in BOOLEAN :
             \A t \in {AfterExit(St, ok)} :
             LET n == Len(t.history)
             IN  /\ t.current # current
                 /\ current.id \notin t.files
                 /\ n = Len(history) + 1
                 /\ t.history[n].id = current.id
                 /\ t.history[n].failed

\* the worker is about to handle the exit of a killed player, no pause or
\* seek pending
C16_Witness ==
    /\ pc = "woke_proc" /\ ret_code = Killed /\ ~pause_requested
    /\ seek_offset = NoSeek /\ ~current.is_replay

\* The worker handles a player's exit with a non-zero status and no pause or
\* seek request pending.
ExitFailure == pc = "woke_proc" /\ ~pause_requested /\ ret_code # 0

\* The step is one in which the playback loop raises: the trim or the start
\* of the player fails.
Raises ==
    \/ \E w \in CacheWrites : CacheDone(w, FALSE)
    \/ TrimDone(FALSE)
    \/ Probe2Done(FALSE)
    \/ WakePaused(FALSE)
    \/ (pause_requested /\ HandleExit(FALSE))

\* C17: the record appended for a non-replay entry has failed = true exactly
\* when the worker saw its last player exit with a non-zero status while no
\* pause or seek request was pending, or the playback loop raised; handling
\* an exit with a pause or seek request pending appends no record, whatever
\* the exit status, unless the restart itself raises.
C17_FailedExactlyOnRealFailure ==
    [][/\ history' # history =>
             /\ Len(history') = Len(history) + 1
             /\ SubSeq(history', 1, Len(history)) = history
             /\ current # None /\ ~current.is_replay
             /\ history'[Len(history')].id = current.id
             /\ history'[Len(history')].failed <=> (ExitFailure \/ Raises)
       /\ (pc = "woke_proc" /\ pause_requested /\ HandleExit(TRUE)) =>
             history' = history]_vars

\* one entry was finalized as failed and a later one as not failed
C17_Witness ==
    /\ Len(history) = 2
    /\ history[1].failed /\ ~history[2].failed

\* C18: the worker goes on after a failure.  In the step that finalizes an
\* entry as failed, with the global pause off and an entry of a non-paused
\* channel pending, the worker picks the first such entry and starts to
\* probe it; and an entry that has been probed and cached is handed to a
\* player, at offset 0, without a wait on any signal.
C18_WorkerContinuesAfterFailure ==
    /\ [][(/\ history' # history
           /\ history'[Len(history')].failed
           /\ ~paused_global
           /\ \E i \in 1..Len(deque) : ~OnPausedChannel(deque[i], paused_channels))
          => \E k \in 1..Len(deque) :
                /\ ~OnPausedChannel(deque[k], paused_channels)
                /\ \A j \in 1..(k - 1) : OnPausedChannel(deque[j], paused_channels)
                /\ current' = deque[k]
                /\ deque' = RemoveAt(deque, k)
                /\ pc' = "probe"]_vars
    /\ [](pc = "cache" =>
            LET t == BeginIteration(St, TRUE)
            IN  t.current = current /\ t.proc = "running" /\ t.play_file = 0)

\* entry 1 was finalized as failed and entry 2 is current, being probed
C18_Witness ==
    /\ Len(history) = 1 /\ history[1].failed /\ history[1].id = 1
    /\ current # None /\ current.id = 2 /\ pc = "probe"

\* C19: the history never holds more than MAX_HISTORY records, and it is
\* always the most recent finalized records (all of them up to MAX_HISTORY)
\* in the order of their completion: eviction takes the oldest.  Checked in
\* HistorySpec, where entry n is the n-th to be finalized.
C19_HistoryKeepsMostRecent ==
    LET done == next_id - 1
        kept == IF done > MAX_HISTORY THEN MAX_HISTORY ELSE done
    IN  /\ Len(history) <= MAX_HISTORY
        /\ Len(history) = kept
        /\ \A i \in 1..Len(history) : history[i].id = done - kept + i

\* the history is full and the two oldest records have been evicted
C19_Witness ==
    /\ Len(history) = MAX_HISTORY
    /\ history[1].id = 3 /\ history[MAX_HISTORY].id = MAX_HISTORY + 2

\* The worker finalizes the current entry in this step.
Finalizes == current # None /\ current' # current

\* the pending sequence holds an entry with this id
Pending(dq, id) == \E i \in 1..Len(dq) : dq[i].id = id

\* C20: a non-replay entry gets its one history record in the step that
\* finalizes it, and in no other step; a replay entry gets none; an entry
\* that leaves the pending sequence without becoming current (clear) gets
\* none; the records already there are not touched by an append, the oldest
\* is dropped only when the capacity is passed.  No two records have the
\* same id, and no entry pending or current has a record yet.
C20_OneRecordPerPlayedEntry ==
    /\ [](/\ \A i, j \in 1..Len(history) :
                i # j => history[i].id # history[j].id
          /\ \A i \in 1..Len(history) :
                ~Pending(deque, history[i].id) /\ history[i].id # current.id)
    /\ [][/\ (Finalizes /\ ~current.is_replay) =>
                LET n  == Len(history')
                    h1 == Append(history, history'[n])
                IN  /\ n >= 1
                    /\ history'[n].id = current.id
                    /\ history'[n].channel = current.channel
                    /\ history' = IF Len(h1) > MAX_HISTORY THEN Tail(h1) ELSE h1
          /\ (Finalizes /\ current.is_replay) => history' = history
          /\ ~Finalizes => history' = history
          /\ \A i \in 1..Len(deque) :
                (~Pending(deque', deque[i].id) /\ current' # deque[i])
                    => \A k \in 1..Len(history') : history'[k].id # deque[i].id]_vars

\* entries 1 and 2 were both picked, cached and finalized, and the history
\* holds the record of entry 1 only: entry 2 was a replay
C20_Witness ==
    /\ next_id = 3 /\ current = None /\ deque = <<>>
    /\ cache = {1, 2}
    /\ Len(history) = 1 /\ history[1].id = 1

\* ids of the entries that are pending or current
Owned == {deque[i].id : i \in 1..Len(deque)}
             \cup (IF current # None THEN {current.id} ELSE {})

\* C21: the audio file of an entry exists as long as the entry is pending or
\* current (paused or between seek cycles included) and no longer: it is
\* deleted in the step that finalizes the entry or in the clear that removes
\* it, in no other step, and a deleted file never comes back, so that it is
\* deleted once.
C21_FileDeletedOnceAtTheEnd ==
    /\ [](files = Owned)
    /\ [][/\ \A f \in files \ files' :
                \/ Finalizes /\ f = current.id
                \/ Pending(deque, f) /\ ~Pending(deque', f) /\ current'.id # f
          /\ \A f \in files' \ files : f = next_id /\ next_id' = next_id + 1
          /\ next_id' >= next_id]_vars

\* entry 1 is gone with its file; entry 2 is current, paused at a positive
\* offset, and its file is there
C21_Witness ==
    /\ next_id = 3 /\ current # None /\ current.id = 2
    /\ pc = "paused_wait" /\ play_offset > 0
    /\ files = {2}

\* ---------------------------------------------------------------- C22
PublishAllowed ==
    /\ sent < MaxSent
    /\ \A q \in Subscribers : stream[q] = "open" => sent - base[q] < MaxStale

\* C22: publishing is one step that never waits.  send() appends the message
\* to every subscribed buffer with room and unsubscribes every subscriber
\* whose buffer holds 256 messages, leaving that buffer alone; no buffer ever
\* holds more than 256; a subscriber that is no longer subscribed never gets
\* a later message; whether an event can be published does not depend on any
\* buffer.
C22_PublishNeverBlocks ==
    /\ [](\A q \in Subscribers : Len(buf[q]) <= MAX_SSE_QUEUE)
    /\ [](LET r == Send(clients, buf, sent + 1)
          IN  \A q \in Subscribers :
                /\ (q \in Range(clients) /\ Len(buf[q]) < MAX_SSE_QUEUE)
                      => /\ r.buf[q] = Append(buf[q], sent + 1)
                         /\ q \in Range(r.clients)
                /\ (q \in Range(clients) /\ Len(buf[q]) = MAX_SSE_QUEUE)
                      => /\ r.buf[q] = buf[q]
                         /\ q \notin Range(r.clients)
                /\ q \notin Range(clients)
                      => /\ r.buf[q] = buf[q]
                         /\ q \notin Range(r.clients))
    /\ [](PublishAllowed => ENABLED Publish)
    /\ [][/\ sent' # sent =>
               /\ sent' = sent + 1
               /\ clients' = Send(clients, buf, sent').clients
               /\ buf' = Send(clients, buf, sent').buf
          /\ \A q \in Subscribers :
               (stream[q] # "none" /\ q \notin Range(clients))
                   => /\ q \notin Range(clients')
                      /\ Len(buf'[q]) <= Len(buf[q])]_vars

\* One stream was unsubscribed for a full buffer, and the event that found it
\* full has reached the other subscriber.
C22_Witness ==
    \E q, r \in Subscribers :
        /\ stream[q] = "live" /\ q \notin Range(clients)
        /\ Len(buf[q]) = MAX_SSE_QUEUE
        /\ sent > MAX_SSE_QUEUE
        /\ r \in Range(clients) /\ stream[r] = "live"
        /\ buf[r] # <<>> /\ buf[r][Len(buf[r])] = sent

\* ---------------------------------------------------------------- C23
\* C23 (as stated): once a stream has yielded its snapshot, every event it
\* still has to deliver was published after the snapshot was taken, and, while
\* it is subscribed, the events to deliver are all the events published since
\* the last one it yielded, in emission order.
C23_SnapshotIsConsistentStart ==
    \A q \in Subscribers :
        stream[q] = "live" =>
            /\ \A i \in 1..Len(buf[q]) : buf[q][i] > snap[q]
            /\ q \in Range(clients) =>
                 /\ Len(buf[q]) = sent - (base[q] + taken[q])
                 /\ \A i \in 1..Len(buf[q]) : buf[q][i] = base[q] + taken[q] + i

\* ---------------------------------------------------------------- C24
\* the k-th greatest element of the set of indices M
KthLast(M, k) == CHOOSE i \in M : Cardinality({j \in M : j > i}) = k - 1

\* C24: get_history(limit, offset, channel) returns the records of the channel
\* (all of them with no channel), the most recent first, from the offset-th
\* on and at most limit of them; the history and everything else is left as
\* it was.
C24_GetHistoryPage ==
    \A l \in LimitArgs, o \in OffsetArgs, c \in ChannelArgs :
        LET t == get_history(St, l, o, c)
            M == {i \in 1..Len(history) :
                      c = NoChannel \/ history[i].channel = c}
            n == Cardinality(M) - o
        IN  /\ [t EXCEPT !.ret = 0] = St
            /\ Len(t.ret) = (IF n < 0 THEN 0 ELSE IF n < l THEN n ELSE l)
            /\ \A j \in 1..Len(t.ret) : t.ret[j] = history[KthLast(M, o + j)]

\* two records of different channels: the second page of size one is the
\* older record, and the filter keeps one of them
C24_Witness ==
    /\ Len(history) = 2
    /\ history[1].channel = "x" /\ history[2].channel = NoChannel
    /\ get_history(St, 1, 1, NoChannel).ret = <<history[1]>>
    /\ get_history(St, 2, 0, NoChannel).ret = <<history[2], history[1]>>
    /\ get_history(St, 2, 0, "x").ret = <<history[1]>>

\* ---------------------------------------------------------------- C26
\* C26: status(channel) changes nothing; its items are the current entry (if
\* any, and of the channel when one is given) at position 0 followed by the
\* pending entries (of the channel when one is given) in queue order, each at
\* its position in the queue; playing is true exactly when there is a current
\* entry; the pause flag and the paused channels are those of the call.
C26_StatusIsReadOnlyView ==
    [](\A c \in ChannelArgs :
        LET t      == status(St, c)
            v      == t.ret
            shown  == {i \in 1..Len(deque) : c = NoChannel \/ deque[i].channel = c}
            hasCur == current # None /\ (c = NoChannel \/ current.channel = c)
            k0     == IF hasCur THEN 1 ELSE 0
        IN  /\ [t EXCEPT !.ret = 0] = St
            /\ v.playing <=> current # None
            /\ v.paused = paused_global
            /\ v.channel_paused = paused_channels
            /\ v.queued = Len(deque)
            /\ v.total = Len(v.items)
            /\ Len(v.items) = k0 + Cardinality(shown)
            /\ hasCur => /\ v.items[1].id = current.id
                         /\ v.items[1].position = 0
                         /\ v.items[1].status = "playing"
            /\ \A k \in (k0 + 1)..Len(v.items) :
                  /\ v.items[k].position \in shown
                  /\ v.items[k].id = deque[v.items[k].position].id
                  /\ v.items[k].status = "queued"
            /\ \A k, l \in 1..Len(v.items) :
                  k < l => v.items[k].position < v.items[l].position)

\* an entry of the default lane is current and an entry of channel x is
\* pending: status("x") lists the pending one only and says playing
C26_Witness ==
    /\ current # None /\ current.channel = NoChannel
    /\ Len(deque) = 1 /\ deque[1].channel = "x"
    /\ status(St, "x").ret.playing
    /\ status(St, "x").ret.total = 1
    /\ status(St, "x").ret.items[1].position = 1
    /\ status(St, NoChannel).ret.total = 2

\* ---------------------------------------------------------------- C27
\* what a channel pause or resume must leave alone
SameButChannels(t) ==
    /\ t.paused_global = paused_global /\ t.resume_event = resume_event
    /\ t.deque = deque /\ t.current = current
    /\ t.process = process /\ t.proc = proc /\ t.ret_code = ret_code
    /\ t.pause_requested = pause_requested

\* C27: pause(c) adds and resume(c) removes exactly c in the paused-channel
\* set; a second call changes nothing more; the global pause flag, the pending
\* sequence, the current entry and its player process are as before, also
\* when the current entry is on c.  resume() with no channel opens the global
\* gate and leaves the paused-channel set alone.
C27_ChannelPauseFrame ==
  [](
    /\ \A c \in Channels :
          LET p == pause(St, c)
              r == resume(St, c)
          IN  /\ p.paused_channels = paused_channels \cup {c}
              /\ r.paused_channels = paused_channels \ {c}
              /\ pause(p, c) = p
              /\ resume(r, c) = r
              /\ SameButChannels(p)
              /\ SameButChannels(r)
    /\ LET g == resume(St, NoChannel)
       IN  /\ ~g.paused_global
           /\ g.paused_channels = paused_channels
           /\ g.deque = deque /\ g.current = current)

\* channel x was paused while an entry of x plays: its player runs on
C27_Witness ==
    /\ current # None /\ current.channel = "x"
    /\ "x" \in paused_channels /\ ~paused_global
    /\ process /\ proc = "running" /\ ~pause_requested
    /\ pc = "playing"

\* ---------------------------------------------------------------- C30
Eligible(e) == e.channel = NoChannel \/ e.channel \notin paused_channels

\* C30: _pick_next returns the first pending entry, from the head, whose
\* channel is unset or not paused, and the sequence loses that entry only,
\* the others in their order; when every pending entry is on a paused channel
\* it returns none and the sequence is unchanged.
C30_PickNextFirstEligible ==
  [](
    LET k == PickNext(deque, paused_channels)
        t == PickAndStart(St)
    IN  IF \A i \in 1..Len(deque) : ~Eligible(deque[i])
        THEN k = 0 /\ t.deque = deque /\ t.current = current
        ELSE /\ k \in 1..Len(deque)
             /\ Eligible(deque[k])
             /\ \A j \in 1..(k - 1) : ~Eligible(deque[j])
             /\ t.current = deque[k]
             /\ t.deque = SelectSeq(deque, LAMBDA e : e.id # deque[k].id))

\* the worker is about to pick, the head is on a paused channel and the
\* second entry is not: the second is picked and the head stays
C30_Witness ==
    /\ pc = "woke_items" /\ has_items /\ current = None
    /\ Len(deque) = 2
    /\ ~Eligible(deque[1]) /\ Eligible(deque[2])
    /\ PickAndStart(St).current = deque[2]
    /\ PickAndStart(St).deque = <<deque[1]>>

\* ---------------------------------------------------------------- C25
\* a handler replies in this step
Replies == reply' # reply

\* C25 (as stated): a replay request for an id with no history record, or
\* with no cache file under that id, is answered 404 and builds and enqueues
\* nothing; any other replay request is answered 200 and enqueues at the tail
\* one new replay entry whose file holds the audio of the cache file of that
\* id.  The cache file of an id always holds the audio of the entry of that
\* id.
C25_ReplayNotFoundOrSameAudio ==
    /\ [](\A h \in 1..MaxRequests : h \in cache <=> cache_audio(h) # 0)
    /\ [][(Replies /\ reply'.op = "replay") =>
            LET h     == reply'.arg
                known == \E i \in 1..Len(history) : history[i].id = h
            IN  IF ~known \/ h \notin cache
                THEN /\ reply'.code = 404
                     /\ UNCHANGED <<deque, has_items, files, next_id, history,
                                    current, audio, cache>>
                ELSE /\ reply'.code = 200 /\ reply'.id = next_id
                     /\ next_id' = next_id + 1
                     /\ files' = files \cup {next_id}
                     /\ deque' = Append(deque, deque'[Len(deque')])
                     /\ deque'[Len(deque')].id = next_id
                     /\ deque'[Len(deque')].is_replay
                     /\ audio' = Append(audio, cache_audio(h))
                     /\ audio'[next_id] = audio[h]]_vars

\* ---------------------------------------------------------------- C28
\* C28: a synthesis that fails ends in a 502 reply of its handler and in
\* nothing else: the pending sequence, the history, the files, the current
\* entry and the id counter are as before.  An entry is only ever built in a
\* step that replies 200 with its id, so every entry pending, playing or in
\* the history belongs to a request that was answered 200.
C28_SynthesisFailureEnqueuesNothing ==
    /\ [][(Replies /\ reply'.code = 502) =>
             /\ reply'.op \in Kinds /\ reply'.id = 0
             /\ synth'[reply'.op] = synth[reply'.op] - 1
             /\ UNCHANGED <<deque, has_items, history, files, next_id,
                            current, audio, pc>>]_vars
    /\ [][next_id' # next_id =>
             /\ Replies /\ reply'.code = 200 /\ reply'.id = next_id
             /\ next_id' = next_id + 1]_vars
    /\ [](/\ \A i \in 1..Len(deque) : deque[i].id < next_id
          /\ \A i \in 1..Len(history) : history[i].id < next_id
          /\ current # None => current.id < next_id
          /\ files \subseteq 1..(next_id - 1))

\* a dialogue synthesis failed while one entry was playing and one pending
C28_Witness ==
    /\ reply.op = "dialogue" /\ reply.code = 502
    /\ current # None /\ pc = "playing"
    /\ Len(deque) = 1 /\ next_id = 3

\* ---------------------------------------------------------------- C29
\* C29 (as stated): the player chosen is paplay when it is available,
\* otherwise aplay when it is, and mpv only when neither is.
C29_DocumentedPreference ==
    LET d == detect_player(installed)
    IN  /\ "paplay" \in installed => d = "paplay"
        /\ ("paplay" \notin installed /\ "aplay" \in installed) => d = "aplay"
        /\ d = "mpv" => ("paplay" \notin installed /\ "aplay" \notin installed)

\* ---------------------------------------------------------------- C31
\* a player process comes to life in this step
Spawns == proc' = "running" /\ proc # "running"

\* C31: there is one current-entry pointer and the player process, while it
\* is alive or not yet observed as dead, belongs to the current entry, which
\* the worker is starting or awaiting it for.  A player process comes to life
\* only in a step of the worker that enters create_subprocess_exec, and only
\* when there was no process before or the worker handles the exit of the
\* previous one in that very step; no control call starts one.  The worker
\* finalizes an entry only when its process, if it had one, has been reaped.
C31_OnePlayerAtATime ==
    /\ [](proc # "none" => (/\ current # None
                            /\ pc \in {"spawning", "playing", "woke_proc"}))
    /\ [](proc \in {"running", "exited"} => pc \in {"spawning", "playing"})
    /\ [][/\ Spawns =>
               /\ pc' = "spawning"
               /\ pc \in {"cache", "probe2", "woke_proc", "paused_woke"}
               /\ proc = "none" \/ (proc = "reaped" /\ pc = "woke_proc")
               /\ current' = current /\ current # None
          /\ (current # None /\ current' # current) =>
               /\ proc \in {"none", "reaped"}
               /\ proc' = "none" /\ ~process']_vars

\* the second entry is handed to a player after the first one was finalized
\* as failed
C31_Witness ==
    /\ pc = "spawning" /\ proc = "running" /\ ~process
    /\ current # None /\ current.id = 2
    /\ Len(history) = 1 /\ history[1].id = 1 /\ history[1].failed


\* ---------------------------------------------------------------- C32
\* the trace element at k is the idle voice_active event
Idle(k) == trace[k].type = "voice_active" /\ trace[k].id = 0

\* the trace element at k is a voice_active event for an entry
Active(k) == trace[k].type = "voice_active" /\ trace[k].id # 0

\* C32: in the worker's trace every unlink of an audio file opens a
\* finalization: it is followed at once by history_update for the same entry
\* and then the idle voice_active when the entry is not a replay, and at once
\* by the idle voice_active when it is.  At history_update the file is gone,
\* the record is in the history and the entry is still current; at the idle
\* event no entry is current.  Every idle event and every history_update is
\* part of such a finalization, an entry has one finalization at most, its
\* voice_active events all come before it, and the history holds one record
\* per history_update.
C32_FinalizationOrder ==
    LET n == Len(trace)
    IN  /\ \A k \in 1..n :
              trace[k].type = "unlink" =>
                 /\ trace[k].cur = trace[k].id /\ trace[k].id # 0
                 /\ ~trace[k].file /\ ~trace[k].rec
                 /\ k + 1 <= n
                 /\ IF trace[k].replay
                    THEN Idle(k + 1)
                    ELSE /\ trace[k + 1].type = "history_update"
                         /\ trace[k + 1].id = trace[k].id
                         /\ trace[k + 1].cur = trace[k].id
                         /\ trace[k + 1].rec /\ ~trace[k + 1].file
                         /\ k + 2 <= n /\ Idle(k + 2)
        /\ \A k \in 1..n :
              Idle(k) => (/\ trace[k].cur = 0
                          /\ trace[k - 1].type \in {"unlink", "history_update"})
        /\ \A k \in 1..n :
              trace[k].type = "history_update" =>
                 (/\ trace[k - 1].type = "unlink"
                  /\ ~trace[k].replay)
        /\ \A k, l \in 1..n :
              (k < l /\ trace[k].type = "unlink"
                     /\ trace[l].type \in {"unlink", "voice_active"})
                  => trace[l].id # trace[k].id
        /\ \A k \in 1..n :
              Active(k) => (/\ trace[k].cur = trace[k].id
                            /\ trace[k].file /\ ~trace[k].rec)
        /\ Len(history) =
              Cardinality({k \in 1..n : trace[k].type = "history_update"})

\* entry 1 was played, paused, resumed and finalized; entry 2, a replay of
\* it, was played and finalized
C32_Witness ==
    /\ Len(trace) = 9
    /\ Active(2) /\ trace[2].id = 1
    /\ Active(3) /\ trace[3].id = 1
    /\ trace[4].type = "unlink"
    /\ trace[5].type = "history_update" /\ trace[5].id = 1
    /\ Idle(6)
    /\ Active(7) /\ trace[7].id = 2 /\ trace[7].replay
    /\ trace[8].type = "unlink" /\ trace[8].id = 2
    /\ Idle(9)

\* ---------------------------------------------------------------- C33
\* C33 (as stated): beside the original file at most one trimmed file exists;
\* none exists while the worker generates the next one; none exists when no
\* entry is current, whichever way the play loop was left.
C33_AtMostOneTrimmedFile ==
    /\ trim_live <= 1
    /\ pc = "trim" => trim_live = 0
    /\ current = None => trim_live = 0

\* ---------------------------------------------------------------- C34
\* |a - b|
Dist(a, b) == IF a >= b THEN a - b ELSE b - a

\* C34: once the worker is past the timing code, the segments of a dialogue
\* entry with a probed, non-zero duration D all have timings: the first
\* starts at 0, each starts where the one before it ends, each one's length
\* is D times its share of the characters to within one thousandth, and the
\* last ends at D rounded to the thousandth; starts and ends never go down.
\* The segments of any other entry, and of every entry before that point,
\* have no timings.
C34_TimingsTileTheDuration ==
    LET segs == entry.segments
        n    == Len(segs)
        D    == entry.duration
        T    == TotalChars([i \in 1..n |-> [chars |-> segs[i].chars]])
    IN  IF entry.step = "play" /\ entry.type = "dialogue"
           /\ D # NoDuration /\ D # 0
        THEN /\ \A i \in 1..n : segs[i].start # NoTime /\ segs[i].end # NoTime
             /\ n >= 1 => segs[1].start = 0
             /\ \A i \in 2..n : segs[i].start = segs[i - 1].end
             /\ \A i \in 1..n : segs[i].start <= segs[i].end
             /\ \A i \in 1..n :
                    Dist((segs[i].end - segs[i].start) * T * Finer,
                         D * segs[i].chars) <= T * Finer
             /\ n >= 1 => 2 * Dist(segs[n].end * Finer, D) <= Finer
        ELSE \A i \in 1..n : segs[i].start = NoTime /\ segs[i].end = NoTime

\* three segments of 1, 2 and 3 characters over a duration that is not a
\* whole number of thousandths: 7 parts
C34_Witness ==
    /\ entry.step = "play" /\ entry.type = "dialogue"
    /\ entry.duration = 7 /\ Len(entry.segments) = 3
    /\ entry.segments[1].chars = 1 /\ entry.segments[2].chars = 2
    /\ entry.segments[3].chars = 3
    /\ entry.segments[1].start = 0
    /\ entry.segments[3].start = entry.segments[2].end
    /\ entry.segments[3].end = 4

\* ---------------------------------------------------------------- C35
\* the state in which the worker returns from `await self._process.wait()`
\* when nothing else runs between the call that led to s and that return
Observed(s) == [s EXCEPT !.proc = "reaped", !.pc = "woke_proc"]

\* C35 (as stated): when skip() returns true, the worker, handling the exit
\* of the player next, finalizes the entry that was current at the call,
\* whether or not a pause() or seek() had killed the player before and the
\* worker has not handled that yet.
C35_SkipFinalizesCurrent ==
    LET t == skip(St)
    IN  t.ret = 1 =>
          \A ok \in BOOLEAN : AfterExit(Observed(t), ok).current # current

\* ---------------------------------------------------------------- C36
\* C36: clear() with no channel, called while the current entry has no
\* process assigned (it is probed, cached, trimmed, handed to a player that
\* is not assigned yet, or paused), empties the pending sequence and returns
\* the number of entries removed from it; the current entry, its file, its
\* offset, the player and the worker's position are as before.  The worker
\* then goes on with that entry: from the probe to the cache copy, from there
\* or from a resume to a player on the file at the entry's offset (through
\* the trim when the offset is positive), and a resume() wakes a paused
\* worker.
C36_ClearSparesIdleCurrent ==
  [](
    (current # None /\ pc \in NoProcessYet \cup {"spawning"}) =>
        LET t == clear(St, NoChannel)
        IN  /\ t.ret = Len(deque)
            /\ t.deque = <<>>
            /\ t.current = current
            /\ current.id \in files /\ current.id \in t.files
            /\ t.proc = proc /\ t.process = process /\ ~t.process
            /\ t.pc = pc /\ t.play_offset = play_offset
            /\ t.trimmed_path = trimmed_path /\ t.trim_live = trim_live
            /\ t.pause_requested = pause_requested
            /\ t.seek_offset = seek_offset
            /\ pc \in {"cache", "paused_woke"} =>
                  LET u == BeginIteration(t, TRUE)
                  IN  /\ u.current = current /\ u.play_offset = play_offset
                      /\ IF play_offset > 0 THEN u.pc = "trim"
                         ELSE u.pc = "spawning" /\ u.proc = "running"
                              /\ u.play_file = 0
            /\ pc = "probe2" =>
                  LET u == StartProcess(t, t.trimmed_path, TRUE)
                  IN  /\ u.current = current /\ u.proc = "running"
                      /\ u.play_file = play_offset
            /\ pc = "paused_wait" =>
                  LET u == resume(t, NoChannel)
                  IN  u.pc = "paused_woke" /\ u.current = current
                      /\ u.play_offset = play_offset)

\* entry 1 is paused at a positive offset and entry 2 is gone without a
\* history record: a clear() removed it during the pause
C36_Witness ==
    /\ pc = "paused_wait" /\ current # None /\ current.id = 1
    /\ play_offset > 0 /\ paused_global
    /\ next_id = 3 /\ deque = <<>> /\ ~has_items
    /\ history = <<>> /\ files = {1}

\* ---------------------------------------------------------------- C37
\* the handle of a player process is assigned and its exit not yet known
LiveHandle == process /\ proc \in {"running", "exited"}

\* C37: the pause-requested flag is set, and a seek offset is pending, only
\* while the worker awaits the exit of an assigned player process or is about
\* to handle it; a pending offset always comes with the flag.  Either one is
\* set or replaced only in a step taken while the handle is live, and the
\* step in which the worker handles the exit leaves the flag false and no
\* offset pending.  So wherever the worker is idle, picking, probing,
\* trimming, starting a player or waiting for a resume, the flag is false
\* and no offset is pending.
C37_MarkersNeverStale ==
    /\ [](/\ pause_requested => (pc \in {"playing", "woke_proc"} /\ process)
          /\ seek_offset # NoSeek => pause_requested
          /\ pc \notin {"playing", "woke_proc"}
                => (~pause_requested /\ seek_offset = NoSeek))
    /\ [][/\ (pause_requested' /\ ~pause_requested) => LiveHandle
          /\ (seek_offset' # NoSeek /\ seek_offset' # seek_offset) => LiveHandle
          /\ (pc = "woke_proc" /\ pc' # "woke_proc")
                => (~pause_requested' /\ seek_offset' = NoSeek)]_vars

\* a pause and a seek were both pending when the worker handled the exit:
\* it took the seek, and nothing is pending while it trims
C37_Witness ==
    /\ pc = "trim" /\ cycle.kind = "seek" /\ paused_global
    /\ ~pause_requested /\ seek_offset = NoSeek /\ play_offset = 1

\* ---------------------------------------------------------------- C38
\* C38: the pending entries have different ids, all built before now, and
\* the current entry is not among them; the process handle is assigned only
\* while there is a current entry.  An entry comes into the pending sequence
\* only when it is built, with an id never used before; the entry picked
\* comes out of the pending sequence in the same step; an entry that left
\* the pending sequence or stopped being current never comes back.  The step
\* that finalizes an entry leaves the handle unassigned and that entry
\* neither current nor pending (the next one may be picked in it).
C38_PickedOnceAndHandleWithCurrent ==
    /\ [](/\ \A i, j \in 1..Len(deque) : i # j => deque[i].id # deque[j].id
          /\ \A i \in 1..Len(deque) :
                /\ deque[i].id \in 1..(next_id - 1)
                /\ current # None => deque[i].id # current.id
          /\ current # None => current.id \in 1..(next_id - 1)
          /\ process => current # None
          /\ current = None => (~process /\ proc = "none"))
    /\ [][/\ next_id' >= next_id
          /\ \A i \in 1..Len(deque') :
                \/ (deque'[i].id >= next_id /\ deque'[i].id < next_id')
                \/ \E j \in 1..Len(deque) : deque[j].id = deque'[i].id
          /\ (current'.id # None.id /\ current'.id # current.id) =>
                /\ \E j \in 1..Len(deque) : deque[j] = current'
                /\ \A i \in 1..Len(deque') :
                      /\ deque'[i].id # current'.id
                      /\ \E j \in 1..Len(deque) : deque[j].id = deque'[i].id
                /\ \A j \in 1..Len(deque) :
                      \/ deque[j].id = current'.id
                      \/ \E i \in 1..Len(deque') : deque'[i].id = deque[j].id
                /\ ~process'
          /\ (current.id # None.id /\ current'.id # current.id) =>
                /\ ~process' /\ proc' = "none"
                /\ \A i \in 1..Len(deque') : deque'[i].id # current.id]_vars

\* entry 1 was picked, played and finalized; entry 2 is current with its
\* player assigned
C38_Witness ==
    /\ current # None /\ current.id = 2 /\ process /\ pc = "playing"
    /\ Len(history) = 1 /\ history[1].id = 1 /\ ~history[1].failed
    /\ deque = <<>>

\* ---------------------------------------------------------------- C39
\* C39: a step that builds and enqueues an entry, with or without priority,
\* on any channel, while an entry is current, puts the new entry in the
\* pending sequence (at the head with priority), makes its file, sets the
\* has-items signal and changes nothing else: the current entry, the player process and its handle,
\* the play offset and the time played, the trimmed file, the pause flags,
\* the interruption markers and the worker's position are as before.  A pick
\* made while an entry is current is made in the worker's step that finalizes
\* that entry: its file is gone, its record (unless it is a replay) is the
\* last of the history, and it had no process left.
C39_EnqueueSparesCurrent ==
    /\ [][(next_id' # next_id /\ current # None) =>
             /\ UNCHANGED <<current, pc, process, proc, ret_code, play_offset,
                            elapsed, trimmed_path, play_file, trim_live,
                            paused_global, resume_event, paused_channels,
                            pause_requested, seek_offset, history, cycle>>
             /\ files' = files \cup {next_id}
             /\ has_items'
             /\ Len(deque') = Len(deque) + 1
             /\ \E k \in 1..Len(deque') :
                   /\ deque'[k].id = next_id
                   /\ deque'[k].priority => k = 1]_vars
    /\ [][(current # None /\ current' # None /\ current' # current) =>
             /\ pc \in {"cache", "trim", "probe2", "woke_proc", "paused_woke"}
             /\ proc \in {"none", "reaped"}
             /\ current.id \notin files'
             /\ ~current.is_replay =>
                   (/\ history' # <<>>
                    /\ history'[Len(history')].id = current.id)
             /\ pc' = "probe" /\ ~process' /\ proc' = "none"]_vars

\* entry 1 is being played, some of it already, and entry 2, enqueued with
\* priority, is pending behind it
C39_Witness ==
    /\ current # None /\ current.id = 1 /\ ~current.priority
    /\ pc = "playing" /\ proc = "running" /\ process /\ elapsed > 0
    /\ Len(deque) = 1 /\ deque[1].id = 2 /\ deque[1].priority

============================================================================
